---- MODULE Spec2Model ----
(***************************************************************************)
(* The plan -> analysis -> implement loop of the metadata converter:       *)
(* the three node functions (manager/nodes.py, data_analyst/nodes.py),     *)
(* the graph state they read and update (graph.py) and the three language- *)
(* model oracles they call.  An oracle is an input: its answer is drawn    *)
(* from a small set, or it raises.                                         *)
(***************************************************************************)
EXTENDS Integers, Sequences, FiniteSets, TLC

\* ------------------------------------------------------------- bounds
MaxFields == 2      \* largest legacy document
MaxCycles == 3      \* cap on plan -> analysis selections in one run

\* ------------------------------------------------------------- values
END == "END"
Nodes == {"plan", "execute", "tool_handler", "analysis", "implement"}
None == [none |-> TRUE]
NoException == "no exception"
Causes == {"API connection failed", "timeout"}

FieldNames == <<"title", "author", "date", "sample_id", "deprecated_field">>
FieldValues == <<"Test Document", "John Doe", "2024-01-01", "HBM386.ZGKG.235", "x">>
TargetNames == <<"dc_title", "creator", "created", "parent_sample_id", "unused">>

\* A legacy document is an ordered mapping: a sequence of (field, value).
Document(n) == [i \in 1..n |-> [field |-> FieldNames[i], value |-> FieldValues[i]]]
Documents == {Document(n) : n \in 0..MaxFields}

Keys(doc) == {doc[i].field : i \in 1..Len(doc)}
IndexOf(doc, f) == CHOOSE i \in 1..Len(doc) : doc[i].field = f
ValueOf(doc, f) == IF f \in Keys(doc) THEN doc[IndexOf(doc, f)].value ELSE "unknown"

AppStateKeys ==
    {"messages", "legacy_metadata", "target_schema", "past_analysis",
     "last_checked_field", "analysis_result"}

\* The target schema is opaque to the nodes: only its presence is read.
TheSchema == [fields |-> TargetNames]
NoRecords == [records |-> <<>>]

\* ------------------------------------------------------------- state
VARIABLES
    runtime,             \* how the driver hands the state to a node
    planner,             \* how the planner oracle answers in this run
    analyst,             \* how the analysis oracle answers in this run
    synthesizer,         \* how the implementor oracle answers in this run
    pc,                  \* the node to run next, or END
    raised,              \* the exception that escaped a node, if any
    command,             \* the Command the last node returned
    handed,              \* the state dict the last node was handed, as it left it
    oracle_calls,        \* log of the oracle invocations of the run
    messages,
    legacy_metadata,
    target_schema,
    past_analysis,
    last_checked_field,
    analysis_result,
    patches

vars == <<runtime, planner, analyst, synthesizer, pc, raised, command, handed, oracle_calls, messages,
          legacy_metadata, target_schema, past_analysis, last_checked_field,
          analysis_result, patches>>


\* ------------------------------------------------------------- python values
\* An Optional value is a sequence of length at most one (<<>> is None).
Absent == <<>>
Some(v) == <<v>>
EmptyDict == [empty_dict |-> TRUE]
EmptyUpdate == [k \in {} |-> None]
\* Python truthiness of a dict-or-None and of a string.
Falsy(d) == d = None \/ d = EmptyDict
Get(d, key, default) == IF key \in DOMAIN d THEN d[key] ELSE default

format_legacy_record_markdown(field, value) ==
    [legacy_field |-> field, legacy_value |-> value]

\* ------------------------------------------------------------- planner oracle
Analyze(field, value) ==
    [action |-> "analyze", legacy_field |-> field, legacy_value |-> value]
Transform(field, value) ==
    [action |-> "transform", legacy_field |-> field, legacy_value |-> value]

\* Mutant: the planner never moves past the first field.
TraversalRule_stuck(doc, last) ==
    IF Len(doc) > 0 THEN Analyze(doc[1].field, doc[1].value)
    ELSE Transform("", "")


\* The answer the planner's prompt asks for: the first field when nothing was
\* checked, else the field after the last checked one, else "transform".
TraversalRule(doc, last) ==
    IF last = ""
    THEN IF Len(doc) > 0 THEN Analyze(doc[1].field, doc[1].value)
         ELSE Transform("", "")
    ELSE IF last \in Keys(doc) /\ IndexOf(doc, last) < Len(doc)
         THEN Analyze(doc[IndexOf(doc, last) + 1].field,
                      doc[IndexOf(doc, last) + 1].value)
         ELSE Transform(last, ValueOf(doc, last))

\* What a planner that is not bound by its prompt may answer.
FreeAnswers(doc) ==
    {Analyze(f, ValueOf(doc, f)) : f \in Keys(doc)} \cup {Transform("", "")}

PlannerAnswers(kind, doc, last) ==
    IF kind = "rule" THEN {TraversalRule(doc, last)} ELSE FreeAnswers(doc)

\* ------------------------------------------------------------- messages
PlanMessage(legacy_field, legacy_value) ==
    [role |-> "user",
     content |-> [text |-> "Analyze this legacy metadata field and value:",
                  record |-> format_legacy_record_markdown(legacy_field, legacy_value)]]

AnalysisNoSchemaMessage(legacy_field) ==
    [role |-> "assistant",
     content |-> [text |-> "Analysis failed for", field |-> legacy_field,
                  cause |-> "No target schema available"]]

AnalysisCompletedMessage(legacy_field, result) ==
    [role |-> "assistant",
     content |-> [text |-> "Analysis completed for", field |-> legacy_field,
                  mappings |-> Len(result.recommended_mappings),
                  confidence |-> result.overall_confidence]]

AnalysisFailedMessage(legacy_field, e) ==
    [role |-> "assistant",
     content |-> [text |-> "Analysis failed for", field |-> legacy_field,
                  cause |-> e]]

ImplementationNoResultMessage ==
    [role |-> "assistant",
     content |-> [text |-> "Implementation failed:",
                  cause |-> "No analysis result available"]]

ImplementationCompletedMessage(legacy_field, num_patches) ==
    [role |-> "assistant",
     content |-> [text |-> "Implementation completed for", field |-> legacy_field,
                  num_patches |-> num_patches]]

ImplementationFailedMessage(e) ==
    [role |-> "assistant",
     content |-> [text |-> "Implementation failed:", cause |-> e]]

\* ------------------------------------------------------------- analysis oracle
IndexOfName(f) ==
    IF \E i \in 1..Len(FieldNames) : FieldNames[i] = f
    THEN CHOOSE i \in 1..Len(FieldNames) : FieldNames[i] = f
    ELSE Len(TargetNames)
TargetOf(f) == TargetNames[IndexOfName(f)]

MappingDigest(target_field, target_value, confidence_score) ==
    [target_field |-> target_field, target_value |-> target_value,
     confidence_score |-> confidence_score]

\* model_dump() of a MappingResult; scores are in hundredths.
MappingResult(target_field, target_value, field_similarity_score, value_compatibility_score, confidence_score, warnings) ==
    [target_field |-> target_field, target_value |-> target_value,
     field_analysis_notes |-> "notes", value_analysis_notes |-> "notes",
     field_similarity_score |-> field_similarity_score,
     value_compatibility_score |-> value_compatibility_score,
     confidence_score |-> confidence_score,
     warnings |-> warnings]

\* model_dump() of an AnalysisResult; scores are in hundredths.
AnalysisResult(f, v, results, recommended, confidence, strategy, reason) ==
    [legacy_field |-> f, legacy_value |-> v,
     mapping_results |-> results,
     recommended_mappings |-> recommended,
     overall_confidence |-> confidence,
     mapping_strategy |-> strategy,
     reasoning |-> "reasoning",
     alternative_mappings |-> <<>>,
     no_mapping_reason |-> reason]

\* Answers of the kind the analyst's prompt asks for.
RenameResult(f, v) ==
    AnalysisResult(f, v,
                   <<MappingResult(TargetOf(f), v, 90, 100, 95, <<>>)>>,
                   <<MappingDigest(TargetOf(f), v, 95)>>, 95,
                   "one-to-one", Absent)
ReplaceResult(f, v) ==
    AnalysisResult(f, v,
                   <<MappingResult(f, "normalized", 100, 70, 85, <<>>)>>,
                   <<MappingDigest(f, "normalized", 85)>>, 85,
                   "one-to-one", Absent)
NoMappingResult(f, v) ==
    AnalysisResult(f, v, <<>>, <<>>, 30, "one-to-one",
                   Some("no viable target"))
SplitResult(f, v) ==
    AnalysisResult(f, v,
                   <<MappingResult(TargetOf(f), "72", 90, 90, 90, <<>>),
                     MappingResult("unit", "hour", 80, 80, 80, <<>>)>>,
                   <<MappingDigest(TargetOf(f), "72", 90),
                     MappingDigest("unit", "hour", 80)>>,
                   80, "one-to-many", Absent)

\* An answer the AnalysisResult model accepts although the prompt does not
\* ask for it: the fields are plain floats, lists and an Optional string,
\* declared without bounds or validators.
UncheckedResult(f, v) ==
    AnalysisResult(f, v,
                   <<MappingResult("unused", v, 30, 40, 55, <<>>),
                     MappingResult(TargetOf(f), v, 120, 40, 58, <<>>)>>,
                   <<>>, 58, "one-to-one", Absent)
RepeatedTargetResult(f, v) ==
    AnalysisResult(f, v,
                   <<MappingResult(TargetOf(f), v, 90, 100, 95, <<>>),
                     MappingResult(TargetOf(f), "other", 90, 80, 85, <<>>)>>,
                   <<MappingDigest(TargetOf(f), v, 95),
                     MappingDigest(TargetOf(f), "other", 85)>>,
                   85, "one-to-many", Absent)

\* An answer about another field than the one asked for: legacy_field is a
\* plain str of the answer and is not compared with the request.
MisnamedResult(f, v) ==
    AnalysisResult(FieldNames[5], v, <<>>, <<>>, 30, "one-to-one",
                   Some("no viable target"))

\* The field and value named in the request the analyst receives.
RequestField(content) ==
    IF "record" \in DOMAIN content THEN content.record.legacy_field ELSE ""
RequestValue(content) ==
    IF "record" \in DOMAIN content THEN content.record.legacy_value ELSE ""

\* model_dump() of a PastMappingRecord.
PastMappingRecord(legacy_field, legacy_value, recommended_mappings) ==
    [legacy_field |-> legacy_field, legacy_value |-> legacy_value,
     recommended_mappings |-> recommended_mappings,
     reasoning |-> "reasoning"]

\* The records of the store for this field and value.
ExactMatches(past, f, v) ==
    LET records == Get(past, "records", <<>>)
    IN {i \in 1..Len(records) :
           records[i].legacy_field = f /\ records[i].legacy_value = v}

\* Step 0 of the analyst's prompt: an exact match is reused with the same
\* confidence and the scoring steps are skipped.
ReuseResult(f, v, record) ==
    AnalysisResult(f, v, <<>>, record.recommended_mappings,
                   record.recommended_mappings[1].confidence_score,
                   IF Len(record.recommended_mappings) > 1
                   THEN "one-to-many" ELSE "one-to-one",
                   Absent)

\* "prompt": the analyst answers as its prompt asks; "unchecked": it answers
\* with what the output model accepts.
AnalysisAnswers(kind, user_prompt, past) ==
    LET f == RequestField(user_prompt)
        v == RequestValue(user_prompt)
        known == ExactMatches(past, f, v)
    IN IF kind = "prompt"
       THEN IF known # {}
            THEN {ReuseResult(f, v, past.records[i]) : i \in known}
            ELSE {RenameResult(f, v), ReplaceResult(f, v),
                  NoMappingResult(f, v), SplitResult(f, v)}
       ELSE {UncheckedResult(f, v), RepeatedTargetResult(f, v),
             MisnamedResult(f, v)}

\* ------------------------------------------------------------- synthesizer oracle
JsonPatch(op, field, value) ==
    [op |-> op, path |-> <<field>>, value |-> value, from_ |-> Absent]

\* The dict {mapping["target_field"]: mapping["target_value"] ...} as its
\* items in order: a key stands where it was first inserted and carries the
\* value of its last insertion, so two mappings of one target leave one item.
TargetDict(recommended_mappings) ==
    LET n == Len(recommended_mappings)
        key(i) == recommended_mappings[i].target_field
        firsts == {i \in 1..n : \A j \in 1..(i - 1) : key(j) # key(i)}
        nth(k) == CHOOSE i \in firsts :
                     Cardinality({j \in firsts : j <= i}) = k
        last(t) == CHOOSE i \in 1..n :
                      /\ key(i) = t
                      /\ \A j \in (i + 1)..n : key(j) # t
    IN [k \in 1..Cardinality(firsts) |->
           [key |-> key(nth(k)),
            value |-> recommended_mappings[last(key(nth(k)))].target_value]]

\* Mutant: the request also tells the implementor whether patches exist.
ImplementationRequest_seesPatches(analysis) ==
    [legacy |-> IF "legacy_field" \in DOMAIN analysis
                THEN [field |-> analysis.legacy_field,
                      value |-> Get(analysis, "legacy_value", "None")]
                ELSE EmptyDict,
     target |-> TargetDict(Get(analysis, "recommended_mappings", <<>>)),
     mapping_strategy |-> Get(analysis, "mapping_strategy", "one-to-one"),
     overall_confidence |-> Get(analysis, "overall_confidence", 0),
     reasoning |-> IF patches = <<>>
                   THEN Get(analysis, "reasoning", "No reasoning provided")
                   ELSE "amend the existing patches"]

\* Mutant: a missing legacy field is written out as a pair of nulls.
ImplementationRequest_dumpsNone(analysis) ==
    [legacy |-> [field |-> Get(analysis, "legacy_field", "None"),
                 value |-> Get(analysis, "legacy_value", "None")],
     target |-> TargetDict(Get(analysis, "recommended_mappings", <<>>)),
     mapping_strategy |-> Get(analysis, "mapping_strategy", "one-to-one"),
     overall_confidence |-> Get(analysis, "overall_confidence", 0),
     reasoning |-> Get(analysis, "reasoning", "No reasoning provided")]

\* What the user prompt of implement_call carries.
ImplementationRequest(analysis) ==
    [legacy |-> IF "legacy_field" \in DOMAIN analysis
                THEN [field |-> analysis.legacy_field,
                      value |-> Get(analysis, "legacy_value", "None")]
                ELSE EmptyDict,
     target |-> TargetDict(Get(analysis, "recommended_mappings", <<>>)),
     mapping_strategy |-> Get(analysis, "mapping_strategy", "one-to-one"),
     overall_confidence |-> Get(analysis, "overall_confidence", 0),
     reasoning |-> Get(analysis, "reasoning", "No reasoning provided")]

\* Mutant: the legacy field is left behind after its targets were added.
PromptScript_keepsLegacy(request) ==
    LET lf == IF request.legacy = EmptyDict THEN "" ELSE request.legacy.field
        ops == [i \in 1..Len(request.target) |->
                  IF request.target[i].key = lf
                  THEN JsonPatch("replace", lf, Some(request.target[i].value))
                  ELSE JsonPatch("add", request.target[i].key,
                                 Some(request.target[i].value))]
    IN IF request.target = <<>> THEN <<JsonPatch("remove", lf, Absent)>>
       ELSE ops

\* Mutant: the legacy field is removed before its replacement is added.
PromptScript_removeFirst(request) ==
    LET lf == IF request.legacy = EmptyDict THEN "" ELSE request.legacy.field
        ops == [i \in 1..Len(request.target) |->
                  IF request.target[i].key = lf
                  THEN JsonPatch("replace", lf, Some(request.target[i].value))
                  ELSE JsonPatch("add", request.target[i].key,
                                 Some(request.target[i].value))]
    IN IF request.target = <<>> THEN <<JsonPatch("remove", lf, Absent)>>
       ELSE IF \E i \in 1..Len(ops) : ops[i].op = "add"
            THEN <<JsonPatch("remove", lf, Absent)>> \o ops
            ELSE ops

\* Mutant: a field without a target is left in the document.
PromptScript_keepsUnmapped(request) ==
    LET lf == IF request.legacy = EmptyDict THEN "" ELSE request.legacy.field
        ops == [i \in 1..Len(request.target) |->
                  IF request.target[i].key = lf
                  THEN JsonPatch("replace", lf, Some(request.target[i].value))
                  ELSE JsonPatch("add", request.target[i].key,
                                 Some(request.target[i].value))]
    IN IF request.target = <<>> THEN <<>>
       ELSE IF \E i \in 1..Len(ops) : ops[i].op = "add"
            THEN Append(ops, JsonPatch("remove", lf, Absent))
            ELSE ops


\* The script the implementor's prompt asks for: one operation per target
\* of the request, replace for the legacy field's own name and add for any
\* other, then the removal of the legacy field if anything was added; the
\* removal alone when there is no target.
PromptScript(request) ==
    LET lf == IF request.legacy = EmptyDict THEN "" ELSE request.legacy.field
        ops == [i \in 1..Len(request.target) |->
                  IF request.target[i].key = lf
                  THEN JsonPatch("replace", lf, Some(request.target[i].value))
                  ELSE JsonPatch("add", request.target[i].key,
                                 Some(request.target[i].value))]
    IN IF request.target = <<>> THEN <<JsonPatch("remove", lf, Absent)>>
       ELSE IF \E i \in 1..Len(ops) : ops[i].op = "add"
            THEN Append(ops, JsonPatch("remove", lf, Absent))
            ELSE ops

\* A script the JsonPatch model accepts although no prompt asks for it: "from"
\* and "value" are Optional with default None whatever the op.
UncheckedScript(request) ==
    LET lf == IF request.legacy = EmptyDict THEN "" ELSE request.legacy.field
    IN <<[op |-> "move", path |-> <<"moved">>, value |-> Absent,
          from_ |-> Absent],
         [op |-> "remove", path |-> <<lf>>, value |-> Some("stale"),
          from_ |-> Absent],
         [op |-> "add", path |-> <<"added">>, value |-> Some("new"),
          from_ |-> Some(<<lf>>)]>>

\* "prompt": the implementor answers as its prompt asks; "unchecked": it
\* answers with what the output model accepts.
SynthesizerAnswers(kind, request) ==
    IF kind = "prompt" THEN {PromptScript(request)}
    ELSE {UncheckedScript(request)}

\* ------------------------------------------------------------- oracle outcomes
Answer(result) == [raises |-> FALSE, result |-> result]
Raise(e) == [raises |-> TRUE, cause |-> e]
NotInvoked == [raises |-> FALSE, result |-> None]
Raises == {Raise(e) : e \in Causes}

Command(goto, update) == [goto |-> goto, update |-> update]

\* ------------------------------------------------------------- plan_call
\* Mutant: "transform" hands over to the executor node.
PlanGoto_toExecute(result) ==
    IF result.action = "analyze" THEN "analysis" ELSE "execute"


PlanGoto(result) ==
    IF result.action = "analyze" THEN "analysis" ELSE END

\* Mutant: the selection is routed to analysis without its request message.
PlanUpdate_silent(result) == EmptyUpdate

\* Mutant: a "transform" answer's field and value are handed on as well.
PlanUpdate_keepsAnswer(result) ==
    IF result.action = "analyze" \/ result.legacy_field # ""
    THEN [messages |-> <<PlanMessage(result.legacy_field, result.legacy_value)>>]
    ELSE EmptyUpdate

PlanUpdate(result) ==
    IF result.action = "analyze"
    THEN [messages |-> <<PlanMessage(result.legacy_field, result.legacy_value)>>]
    ELSE EmptyUpdate

\* Mutant: the write is made whatever the action.
PlanStateWrite_always(result, last) == result.legacy_field

\* Mutant: the write is left out.
PlanStateWrite_never(result, last) == last


\* state["last_checked_field"] = legacy_field: a write into the dict the node
\* was handed, not part of the returned update.
PlanStateWrite(result, last) ==
    IF result.action = "analyze" THEN result.legacy_field ELSE last

PlanCommand(result) == Command(PlanGoto(result), PlanUpdate(result))

\* ------------------------------------------------------------- analysis_call
AnalysisInvokes(msgs, legacy_field, schema) ==
    /\ msgs # <<>>
    /\ legacy_field # ""
    /\ schema # None

\* Mutant: the failure message drops the cause.
AnalysisFailureUpdate_noCause(legacy_field, e) ==
    [messages |-> <<AnalysisFailedMessage(legacy_field, "error")>>]


AnalysisFailureUpdate(legacy_field, e) ==
    [messages |-> <<AnalysisFailedMessage(legacy_field, e)>>]

\* Mutant: the completion is reported but the result is not stored.
AnalysisSuccessUpdate_messageOnly(legacy_field, result) ==
    [messages |-> <<AnalysisCompletedMessage(legacy_field, result)>>]

\* Mutant: a fresh analysis also discards the patches collected so far.
AnalysisSuccessUpdate_resetsPatches(legacy_field, result) ==
    [messages |-> <<AnalysisCompletedMessage(legacy_field, result)>>,
     analysis_result |-> result,
     patches |-> <<>>]

AnalysisSuccessUpdate(legacy_field, result) ==
    [messages |-> <<AnalysisCompletedMessage(legacy_field, result)>>,
     analysis_result |-> result]

\* Mutant: a failed analysis is reported and tried again.
AnalysisCommand_retries(msgs, legacy_field, schema, out) ==
    IF msgs = <<>> THEN Command(END, EmptyUpdate)
    ELSE IF legacy_field = "" THEN Command(END, EmptyUpdate)
    ELSE IF schema = None
    THEN Command(END, [messages |-> <<AnalysisNoSchemaMessage(legacy_field)>>])
    ELSE IF out.raises
    THEN Command("analysis", AnalysisFailureUpdate(legacy_field, out.cause))
    ELSE Command("implement", AnalysisSuccessUpdate(legacy_field, out.result))

\* Mutant: a missing field is reported like a missing schema.
AnalysisCommand_reportsNoField(msgs, legacy_field, schema, out) ==
    IF msgs = <<>> THEN Command(END, EmptyUpdate)
    ELSE IF legacy_field = "" \/ schema = None
    THEN Command(END, [messages |-> <<AnalysisNoSchemaMessage(legacy_field)>>])
    ELSE IF out.raises
    THEN Command(END, AnalysisFailureUpdate(legacy_field, out.cause))
    ELSE Command("implement", AnalysisSuccessUpdate(legacy_field, out.result))

AnalysisCommand(msgs, legacy_field, schema, out) ==
    IF msgs = <<>> THEN Command(END, EmptyUpdate)
    ELSE IF legacy_field = "" THEN Command(END, EmptyUpdate)
    ELSE IF schema = None
    THEN Command(END, [messages |-> <<AnalysisNoSchemaMessage(legacy_field)>>])
    ELSE IF out.raises
    THEN Command(END, AnalysisFailureUpdate(legacy_field, out.cause))
    ELSE Command("implement", AnalysisSuccessUpdate(legacy_field, out.result))

\* ------------------------------------------------------------- implement_call
ImplementInvokes(msgs, analysis) ==
    /\ msgs # <<>>
    /\ ~Falsy(analysis)

\* Mutant: the new operations replace the list instead of extending it.
ImplementAccumulate_overwrite(existing_patches, result_patches) ==
    result_patches


\* Mutant: the new operations are put in front of the list.
ImplementAccumulate_prepend(existing_patches, result_patches) ==
    result_patches \o existing_patches


ImplementAccumulate(existing_patches, result_patches) ==
    existing_patches \o result_patches

ImplementSuccessUpdate(analysis, existing_patches, result_patches) ==
    [messages |-> <<ImplementationCompletedMessage(
                        Get(analysis, "legacy_field", "None"),
                        Len(result_patches))>>,
     patches |-> ImplementAccumulate(existing_patches, result_patches)]

\* Mutant: a failed implementation resets the patch list.
ImplementFailureUpdate_clears(e) ==
    [messages |-> <<ImplementationFailedMessage(e)>>, patches |-> <<>>]


ImplementFailureUpdate(e) ==
    [messages |-> <<ImplementationFailedMessage(e)>>]

\* Mutant: a missing analysis result also resets the patch list.
ImplementCommand_clearsOnMissing(msgs, analysis, existing_patches, out) ==
    IF msgs = <<>> THEN Command(END, EmptyUpdate)
    ELSE IF Falsy(analysis)
    THEN Command(END, [messages |-> <<ImplementationNoResultMessage>>,
                       patches |-> <<>>])
    ELSE IF out.raises
    THEN Command(END, ImplementFailureUpdate(out.cause))
    ELSE Command("plan",
                 ImplementSuccessUpdate(analysis, existing_patches, out.result))

ImplementCommand(msgs, analysis, existing_patches, out) ==
    IF msgs = <<>> THEN Command(END, EmptyUpdate)
    ELSE IF Falsy(analysis)
    THEN Command(END, [messages |-> <<ImplementationNoResultMessage>>])
    ELSE IF out.raises
    THEN Command(END, ImplementFailureUpdate(out.cause))
    ELSE Command("plan",
                 ImplementSuccessUpdate(analysis, existing_patches, out.result))

\* ------------------------------------------------------------- the driver
\* StateGraph(AppState): a node's update is merged into the state, messages
\* by appending.  "shared": the nodes are driven over one state dict, so a
\* write into the dict is seen by the next node and every key of an update
\* is kept.  "channels": a node is handed a snapshot of the channels AppState
\* declares, so a write into it is lost and an undeclared key is dropped.
Runtimes == {"shared", "channels"}
Kept(key) == runtime = "shared" \/ key \in AppStateKeys

Cycles(msgs) == Cardinality({i \in 1..Len(msgs) : msgs[i].role = "user"})

Log(oracle, request, out) ==
    Append(oracle_calls,
           [oracle |-> oracle, request |-> request, raises |-> out.raises,
            cause |-> IF out.raises THEN out.cause ELSE "",
            answer |-> IF oracle # "implement" /\ ~out.raises
                       THEN out.result ELSE None,
            patches |-> IF oracle = "implement" /\ ~out.raises
                        THEN out.result ELSE <<>>])

\* Mutant: serialising the store for the prompt empties it.
Return_clearsStore(node, cmd, written_field) ==
    /\ command' = [node |-> node, goto |-> cmd.goto, update |-> cmd.update]
    /\ pc' = cmd.goto
    /\ handed' = [last_checked_field |-> written_field,
                  legacy_metadata |-> legacy_metadata]
    /\ messages' = messages \o Get(cmd.update, "messages", <<>>)
    /\ analysis_result' =
           IF Kept("analysis_result")
           THEN Get(cmd.update, "analysis_result", analysis_result)
           ELSE analysis_result
    /\ patches' =
           IF Kept("patches") THEN Get(cmd.update, "patches", patches)
           ELSE patches
    /\ last_checked_field' =
           IF runtime = "shared" THEN written_field ELSE last_checked_field
    /\ past_analysis' = IF node = "analysis" THEN NoRecords ELSE past_analysis
    /\ UNCHANGED <<runtime, planner, analyst, synthesizer, raised,
                   legacy_metadata, target_schema>>


Return(node, cmd, written_field) ==
    /\ command' = [node |-> node, goto |-> cmd.goto, update |-> cmd.update]
    /\ pc' = cmd.goto
    /\ handed' = [last_checked_field |-> written_field,
                  legacy_metadata |-> legacy_metadata]
    /\ messages' = messages \o Get(cmd.update, "messages", <<>>)
    /\ analysis_result' =
           IF Kept("analysis_result")
           THEN Get(cmd.update, "analysis_result", analysis_result)
           ELSE analysis_result
    /\ patches' =
           IF Kept("patches") THEN Get(cmd.update, "patches", patches)
           ELSE patches
    /\ last_checked_field' =
           IF runtime = "shared" THEN written_field ELSE last_checked_field
    /\ UNCHANGED <<runtime, planner, analyst, synthesizer, raised,
                   legacy_metadata, target_schema, past_analysis>>

\* An exception that no node catches ends the run where it stands.
Escape(e) ==
    /\ raised' = e
    /\ handed' = [last_checked_field |-> last_checked_field,
                  legacy_metadata |-> legacy_metadata]
    /\ UNCHANGED <<runtime, planner, analyst, synthesizer, pc, command,
                   messages, legacy_metadata, target_schema, past_analysis,
                   last_checked_field, analysis_result, patches>>

Running(node) == pc = node /\ raised = NoException

plan_call ==
    /\ Running("plan")
    /\ \E out \in {Answer(r) : r \in PlannerAnswers(planner, legacy_metadata,
                                                    last_checked_field)}
                  \cup Raises :
          /\ ~out.raises /\ out.result.action = "analyze"
                => Cycles(messages) < MaxCycles
          /\ oracle_calls' = Log("plan", last_checked_field, out)
          /\ IF out.raises THEN Escape(out.cause)
             ELSE Return("plan", PlanCommand(out.result),
                         PlanStateWrite(out.result, last_checked_field))

analysis_call ==
    /\ Running("analysis")
    /\ IF AnalysisInvokes(messages, last_checked_field, target_schema)
       THEN \E out \in {Answer(r) : r \in AnalysisAnswers(
                                        analyst,
                                        messages[Len(messages)].content,
                                        past_analysis)}
                       \cup Raises :
               /\ oracle_calls' =
                      Log("analysis", messages[Len(messages)].content, out)
               /\ Return("analysis",
                         AnalysisCommand(messages, last_checked_field,
                                         target_schema, out),
                         last_checked_field)
       ELSE /\ UNCHANGED oracle_calls
            /\ Return("analysis",
                      AnalysisCommand(messages, last_checked_field,
                                      target_schema, NotInvoked),
                      last_checked_field)

implement_call ==
    /\ Running("implement")
    /\ IF ImplementInvokes(messages, analysis_result)
       THEN \E out \in {Answer(r) : r \in SynthesizerAnswers(
                                        synthesizer,
                                        ImplementationRequest(analysis_result))}
                       \cup Raises :
               /\ oracle_calls' =
                      Log("implement", ImplementationRequest(analysis_result), out)
               /\ Return("implement",
                         ImplementCommand(messages, analysis_result, patches, out),
                         last_checked_field)
       ELSE /\ UNCHANGED oracle_calls
            /\ Return("implement",
                      ImplementCommand(messages, analysis_result, patches,
                                       NotInvoked),
                      last_checked_field)

Init ==
    /\ runtime \in Runtimes
    /\ planner \in {"rule", "free"}
    /\ analyst \in {"prompt", "unchecked"}
    /\ synthesizer \in {"prompt", "unchecked"}
    /\ pc = "plan"
    /\ raised = NoException
    /\ command = [node |-> "entry", goto |-> "plan", update |-> EmptyUpdate]
    /\ oracle_calls = <<>>
    /\ messages = <<>>
    /\ legacy_metadata \in Documents
    /\ handed = [last_checked_field |-> "", legacy_metadata |-> legacy_metadata]
    /\ target_schema \in {TheSchema, None}
    /\ past_analysis = NoRecords
    /\ last_checked_field = ""
    /\ analysis_result = None
    /\ patches = <<>>

Next == plan_call \/ analysis_call \/ implement_call

Spec == Init /\ [][Next]_vars

\* A run started on a state whose last_checked_field names no field of the
\* document it is given.
UnknownField == "deprecated_field"

InitResumed ==
    /\ runtime \in Runtimes
    /\ planner \in {"rule", "free"}
    /\ analyst \in {"prompt", "unchecked"}
    /\ synthesizer \in {"prompt", "unchecked"}
    /\ pc = "plan"
    /\ raised = NoException
    /\ command = [node |-> "entry", goto |-> "plan", update |-> EmptyUpdate]
    /\ oracle_calls = <<>>
    /\ messages = <<>>
    /\ legacy_metadata \in Documents
    /\ handed = [last_checked_field |-> UnknownField,
                 legacy_metadata |-> legacy_metadata]
    /\ target_schema \in {TheSchema, None}
    /\ past_analysis = NoRecords
    /\ last_checked_field = UnknownField
    /\ analysis_result = None
    /\ patches = <<>>

SpecResumed == InitResumed /\ [][Next]_vars

\* A run started with a Past-Mapping Store that already holds the mapping of
\* the document's first field and value, and that of a field with another
\* value.
KnownRecords ==
    [records |->
        <<PastMappingRecord(FieldNames[1], FieldValues[1],
                            <<MappingDigest(TargetNames[1], FieldValues[1], 95)>>),
          PastMappingRecord(FieldNames[2], "Jane Roe",
                            <<MappingDigest("creator", "Jane Roe", 75)>>)>>]

InitHistory ==
    /\ runtime \in Runtimes
    /\ planner \in {"rule", "free"}
    /\ analyst \in {"prompt", "unchecked"}
    /\ synthesizer \in {"prompt", "unchecked"}
    /\ pc = "plan"
    /\ raised = NoException
    /\ command = [node |-> "entry", goto |-> "plan", update |-> EmptyUpdate]
    /\ oracle_calls = <<>>
    /\ messages = <<>>
    /\ legacy_metadata \in Documents
    /\ handed = [last_checked_field |-> "", legacy_metadata |-> legacy_metadata]
    /\ target_schema \in {TheSchema, None}
    /\ past_analysis = KnownRecords
    /\ last_checked_field = ""
    /\ analysis_result = None
    /\ patches = <<>>

SpecHistory == InitHistory /\ [][Next]_vars

\* A node called on its own with a state of the caller's making, as the
\* public functions analysis_call and implement_call can be: with or without
\* messages, with or without a field to analyse, and with an analysis result
\* that is missing, empty, partial or complete.  A missing key, None and the
\* empty value of a key are read alike by the nodes (state.get and `not`) and
\* stand as "" for last_checked_field, <<>> for messages, and None or
\* EmptyDict for analysis_result.
PartialResult == [incomplete |-> "data"]

EarlierPatches == <<JsonPatch("add", "fallback", Some("test"))>>

InitEntered ==
    /\ runtime \in Runtimes
    /\ planner = "rule"
    /\ analyst = "prompt"
    /\ synthesizer \in {"prompt", "unchecked"}
    /\ pc \in {"analysis", "implement"}
    /\ raised = NoException
    /\ command = [node |-> "entry", goto |-> pc, update |-> EmptyUpdate]
    /\ oracle_calls = <<>>
    /\ messages \in {<<>>, <<PlanMessage(FieldNames[1], FieldValues[1])>>}
    /\ legacy_metadata \in Documents
    /\ last_checked_field \in {"", FieldNames[1]}
    /\ handed = [last_checked_field |-> last_checked_field,
                 legacy_metadata |-> legacy_metadata]
    /\ target_schema \in {TheSchema, None}
    /\ past_analysis = NoRecords
    /\ analysis_result \in {None, EmptyDict, PartialResult,
                             RenameResult(FieldNames[1], FieldValues[1])}
    /\ patches \in {<<>>, EarlierPatches}

SpecEntered == InitEntered /\ [][Next]_vars

\* ------------------------------------------------------------- properties
Last(seq) == seq[Len(seq)]
IsPrefix(p, q) == Len(p) <= Len(q) /\ SubSeq(q, 1, Len(p)) = p

\* The oracle was invoked in this step / and raised.
Invoked == Len(oracle_calls') = Len(oracle_calls) + 1
InvokedAndRaised == Invoked /\ Last(oracle_calls').raises
NodeReturned(node) == pc = node /\ command'.node = node /\ raised' = NoException

AllowedTransitions ==
    {<<"plan", "analysis">>, <<"plan", END>>,
     <<"analysis", "implement">>, <<"analysis", END>>,
     <<"implement", "plan">>, <<"implement", END>>}

FailingStep ==
    /\ pc \in {"analysis", "implement"}
    /\ command'.node = pc
    /\ ~Invoked \/ InvokedAndRaised

\* C3: a failing analysis or implement step goes to END in that step and
\* leaves patches as they were, and nothing is planned, analyzed or
\* implemented after END.
C3_FailureStopsRun ==
    [][/\ pc # END
       /\ FailingStep => pc' = END /\ patches' = patches]_vars

\* A run that failed on its second field, the first field's patches intact.
C3_Witness ==
    /\ pc = END
    /\ command.node \in {"analysis", "implement"}
    /\ Last(messages).content.text \in {"Analysis failed for", "Implementation failed:"}
    /\ patches # <<>>

RECURSIVE Scripts(_)
\* The operations the synthesizer returned, call after call.
Scripts(calls) ==
    IF calls = <<>> THEN <<>>
    ELSE Scripts(SubSeq(calls, 1, Len(calls) - 1)) \o Last(calls).patches

CallsTo(oracle) ==
    Cardinality({i \in 1..Len(oracle_calls) : oracle_calls[i].oracle = oracle})
NoOracleRaised ==
    /\ raised = NoException
    /\ \A i \in 1..Len(oracle_calls) : ~oracle_calls[i].raises

\* C5 as claimed: with a planner that follows the traversal rule, a target
\* schema and oracles that do not fail, a finished run on N fields made
\* exactly N plan->analysis->implement cycles, ended at the planner's
\* exhaustion answer and holds the script of every field.
C5_Claim ==
    (/\ planner = "rule" /\ target_schema # None
     /\ pc = END /\ NoOracleRaised)
        => /\ Cycles(messages) = Len(legacy_metadata)
           /\ CallsTo("analysis") = Len(legacy_metadata)
           /\ CallsTo("implement") = Len(legacy_metadata)
           /\ command.node = "plan"
           /\ patches = Scripts(oracle_calls)

KeySeq(doc) == [i \in 1..Len(doc) |-> doc[i].field]
IsUser(m) == m.role = "user"
IsImplemented(m) == m.content.text = "Implementation completed for"
\* The fields that entered analysis, and those whose implementation completed.
EnteredFields(msgs) ==
    LET asked == SelectSeq(msgs, IsUser)
    IN [i \in 1..Len(asked) |-> RequestField(asked[i].content)]
ImplementedFields(msgs) ==
    LET done == SelectSeq(msgs, IsImplemented)
    IN [i \in 1..Len(done) |-> done[i].content.field]

\* Every answer of the analyst so far names the field it was asked about.
AnalystEchoes ==
    \A i \in 1..Len(oracle_calls) :
       (oracle_calls[i].oracle = "analysis" /\ ~oracle_calls[i].raises) =>
          oracle_calls[i].answer.legacy_field =
              RequestField(oracle_calls[i].request)

C8_AnalysisFailure ==
    [][(pc = "analysis" /\ InvokedAndRaised)
          => /\ pc' = END
             /\ messages' =
                    Append(messages,
                           [role |-> "assistant",
                            content |->
                              [text |-> "Analysis failed for",
                               field |-> RequestField(Last(messages).content),
                               cause |-> Last(oracle_calls').cause]])
             /\ "analysis_result" \notin DOMAIN command'.update
             /\ analysis_result' = analysis_result
             /\ patches' = patches]_vars

\* The analysis of the second field raised.
C8_Witness ==
    /\ pc = END
    /\ command.node = "analysis"
    /\ Last(oracle_calls).oracle = "analysis"
    /\ Last(oracle_calls).raises
    /\ patches # <<>>

\* analysis and implement route to END only when they cannot do their work.
RunEndedByFailure ==
    pc = END /\ command.node \in {"analysis", "implement"}

\* C9 as claimed, for the analysis and implement phases: a run that ended
\* because a step could not be carried out has as its last message a failure
\* naming the field, the phase and the cause, and its last update is not
\* empty.
C9_Claim ==
    RunEndedByFailure
        => /\ messages # <<>>
           /\ Last(messages).role = "assistant"
           /\ Last(messages).content.text \in
                  {"Analysis failed for", "Implementation failed for"}
           /\ {"field", "cause"} \subseteq DOMAIN Last(messages).content
           /\ DOMAIN command.update # {}

\* C10 as claimed: a failing planner oracle ends the run at END with the
\* failure recorded.
C10_Claim ==
    (\E i \in 1..Len(oracle_calls) :
        oracle_calls[i].oracle = "plan" /\ oracle_calls[i].raises)
        => /\ pc = END
           /\ messages # <<>>
           /\ "cause" \in DOMAIN Last(messages).content
           /\ Last(messages).content.cause = Last(oracle_calls).cause

\* C11 as claimed: the Past-Mapping Store holds one record per field whose
\* implementation has completed, in the order the fields were implemented,
\* each carrying that field's name.
C11_Claim ==
    LET done == ImplementedFields(messages)
    IN /\ Len(past_analysis.records) = Len(done)
       /\ \A i \in 1..Len(done) :
              past_analysis.records[i].legacy_field = done[i]

\* The operations this step appended to the cumulative list.
Appended == SubSeq(patches', Len(patches) + 1, Len(patches'))

\* An implement step that completed with the synthesizer answering as its
\* prompt asks for the request it was sent.
SynthesizedByPrompt ==
    /\ NodeReturned("implement")
    /\ pc' = "plan"
    /\ Last(oracle_calls').patches = PromptScript(Last(oracle_calls').request)

Recommended(analysis) == Get(analysis, "recommended_mappings", <<>>)
LegacyField(analysis) == Get(analysis, "legacy_field", "")

C14_Claim ==
    [][(SynthesizedByPrompt /\ Recommended(analysis_result) # <<>>)
          => LET recs == Recommended(analysis_result)
                 lf == LegacyField(analysis_result)
                 n == Len(recs)
                 renamed == \E i \in 1..n : recs[i].target_field # lf
             IN /\ Len(Appended) = IF renamed THEN n + 1 ELSE n
                /\ \A i \in 1..n :
                       Appended[i] =
                           [op |-> IF recs[i].target_field = lf
                                   THEN "replace" ELSE "add",
                            path |-> <<recs[i].target_field>>,
                            value |-> Some(recs[i].target_value),
                            from_ |-> Absent]
                /\ renamed =>
                       Appended[n + 1] = [op |-> "remove", path |-> <<lf>>,
                                          value |-> Absent,
                                          from_ |-> Absent]]_vars

IsSynthesized(call) == call.oracle = "implement" /\ ~call.raises

C16_Claim ==
    target_schema = None
        => /\ CallsTo("analysis") = 0
           /\ CallsTo("implement") = 0
           /\ patches = <<>>
           /\ (pc = END /\ command.node = "analysis")
                 => /\ messages # <<>>
                    /\ Last(messages) =
                           AnalysisNoSchemaMessage(
                               RequestField(messages[1].content))

\* plan_call is entered with a last_checked_field that is not empty and
\* names no field of the document.
StaleTraversal ==
    /\ Running("plan")
    /\ last_checked_field # ""
    /\ last_checked_field \notin Keys(legacy_metadata)

\* C17 as claimed: entered with a non-empty last_checked_field that is not
\* in the document, plan_call fails: it returns neither the selection of a
\* field to analyze nor the answer that the fields are exhausted.
C17_Claim ==
    [][StaleTraversal => ~NodeReturned("plan")]_vars

\* The threshold of mapping_results, in hundredths.
ConfidenceThreshold == 60

Candidates(analysis) == Get(analysis, "mapping_results", <<>>)

\* C18 as claimed: every element of the stored result's mapping_results has
\* a confidence_score of at least 0.6, and the list is sorted by
\* confidence_score, highest first.
C18_Claim ==
    LET results == Candidates(analysis_result)
    IN /\ \A i \in 1..Len(results) :
              results[i].confidence_score >= ConfidenceThreshold
       /\ \A i, j \in 1..Len(results) :
              i < j => results[i].confidence_score
                          >= results[j].confidence_score

\* C19 as claimed: the stored result's recommended_mappings is empty exactly
\* when its no_mapping_reason is set and not the empty string.
C19_Claim ==
    analysis_result # None
        => (Recommended(analysis_result) = <<>>
               <=> analysis_result.no_mapping_reason
                      \notin {Absent, Some("")})

\* The confidence the scoring formula gives, in hundredths.
Confidence(field_similarity_score, value_compatibility_score, has_data_loss_warnings, requires_complex_transformation, value_cannot_satisfy) ==
    LET base == (field_similarity_score + value_compatibility_score) \div 2
        kept == IF has_data_loss_warnings THEN (base * 8) \div 10 ELSE base
        done == IF requires_complex_transformation
                THEN (kept * 9) \div 10 ELSE kept
    IN IF value_cannot_satisfy THEN 0 ELSE done

\* C20 as claimed: the confidence_score of every candidate of the stored
\* result is what the scoring formula gives for the candidate's own
\* field_similarity_score and value_compatibility_score, with the data-loss
\* factor when the candidate carries a warning, and with or without the
\* factor for a complex transformation and the zero for a required target
\* that cannot be satisfied.
C20_Claim ==
    LET results == Candidates(analysis_result)
    IN \A i \in 1..Len(results) :
          \E complex, unsatisfied \in BOOLEAN :
             results[i].confidence_score =
                 Confidence(results[i].field_similarity_score,
                            results[i].value_compatibility_score,
                            results[i].warnings # <<>>,
                            complex, unsatisfied)

\* C21 as claimed: in the stored result the field_similarity_score, the
\* value_compatibility_score and the confidence_score of every candidate,
\* and the overall_confidence, lie between 0 and 1 (0 and 100 hundredths).
C21_Claim ==
    LET results == Candidates(analysis_result)
    IN /\ Get(analysis_result, "overall_confidence", 0) \in 0..100
       /\ \A i \in 1..Len(results) :
             /\ results[i].field_similarity_score \in 0..100
             /\ results[i].value_compatibility_score \in 0..100
             /\ results[i].confidence_score \in 0..100

\* C22 as claimed: when the store holds a record for the field and value
\* being analyzed, the result the analysis step stores has that record's
\* recommended_mappings and its confidence.
C22_Claim ==
    [][(/\ NodeReturned("analysis")
        /\ pc' = "implement"
        /\ ExactMatches(past_analysis, RequestField(Last(messages).content),
                        RequestValue(Last(messages).content)) # {})
          => \E i \in ExactMatches(past_analysis,
                                   RequestField(Last(messages).content),
                                   RequestValue(Last(messages).content)) :
                /\ analysis_result'.recommended_mappings
                       = past_analysis.records[i].recommended_mappings
                /\ analysis_result'.overall_confidence
                       = past_analysis.records[i].recommended_mappings[1]
                             .confidence_score]_vars

\* C23: no step changes the legacy document, in the state or in the dict a
\* node was handed, or the target schema, and every step leaves the records
\* the store held as an unchanged prefix of the store.
C23_InputsUntouched ==
    [][/\ legacy_metadata' = legacy_metadata
       /\ handed'.legacy_metadata = legacy_metadata
       /\ target_schema' = target_schema
       /\ IsPrefix(past_analysis.records, past_analysis'.records)]_vars

\* A run over a store with records went through planning, analysis and
\* implementation of two fields.
C23_Witness ==
    /\ Len(past_analysis.records) = 2
    /\ Len(legacy_metadata) = 2
    /\ target_schema # None
    /\ Len(ImplementedFields(messages)) = 2
    /\ patches # <<>>

\* ------------------------------------------------------------- applying a script
\* RFC 6902 on a flat document: add sets the member, replacing the value of
\* an existing one; replace and remove need the member to exist; test
\* compares; an operation that cannot be applied fails the whole script.
RemoveKey(doc, f) ==
    LET keep(pair) == pair.field # f
    IN SelectSeq(doc, keep)
SetKey(doc, f, v) ==
    IF f \in Keys(doc)
    THEN [i \in 1..Len(doc) |->
             IF doc[i].field = f THEN [field |-> f, value |-> v] ELSE doc[i]]
    ELSE Append(doc, [field |-> f, value |-> v])
ApplyOperation(doc, patch) ==
    LET f == patch.path[1]
    IN IF patch.op = "add" /\ patch.value # Absent
       THEN [ok |-> TRUE, doc |-> SetKey(doc, f, patch.value[1])]
       ELSE IF patch.op = "replace" /\ patch.value # Absent /\ f \in Keys(doc)
       THEN [ok |-> TRUE, doc |-> SetKey(doc, f, patch.value[1])]
       ELSE IF patch.op = "remove" /\ f \in Keys(doc)
       THEN [ok |-> TRUE, doc |-> RemoveKey(doc, f)]
       ELSE IF /\ patch.op = "test" /\ patch.value # Absent
               /\ f \in Keys(doc) /\ ValueOf(doc, f) = patch.value[1]
       THEN [ok |-> TRUE, doc |-> doc]
       ELSE [ok |-> FALSE, doc |-> doc]

RECURSIVE ApplyPatch(_, _)
ApplyPatch(doc, script) ==
    IF script = <<>> THEN [ok |-> TRUE, doc |-> doc]
    ELSE LET first == ApplyOperation(doc, script[1])
         IN IF first.ok THEN ApplyPatch(first.doc, Tail(script)) ELSE first

\* The step implemented a rename: there are recommended mappings and none
\* of them keeps the legacy field's name.
IsRename(analysis) ==
    /\ Recommended(analysis) # <<>>
    /\ \A i \in 1..Len(Recommended(analysis)) :
           Recommended(analysis)[i].target_field # LegacyField(analysis)

C25_Claim ==
    \A i \in 1..Len(patches) :
       /\ (patches[i].from_ # Absent) <=> (patches[i].op \in {"move", "copy"})
       /\ patches[i].op = "remove" => patches[i].value = Absent

\* C26: plan_call goes to analysis exactly when the planner answered
\* "analyze", and its update is then the one user message carrying the
\* answer's field and value; for any other answer it goes to END with an empty
\* update, whatever field and value the answer carries.
PlannerAnswer == Last(oracle_calls').answer

AnalystAnswer == Last(oracle_calls').answer

C27_AnalysisSuccess ==
    [][(NodeReturned("analysis") /\ Invoked /\ ~Last(oracle_calls').raises) =>
         /\ command'.goto = "implement"
         /\ command'.update =
                [messages |-> <<AnalysisCompletedMessage(last_checked_field,
                                                         AnalystAnswer)>>,
                 analysis_result |-> AnalystAnswer]
         /\ analysis_result' = AnalystAnswer
         /\ messages' = Append(messages,
                               AnalysisCompletedMessage(last_checked_field,
                                                        AnalystAnswer))
         /\ Last(messages').content.mappings =
                Len(AnalystAnswer.recommended_mappings)
         /\ Last(messages').content.confidence = AnalystAnswer.overall_confidence
         /\ UNCHANGED <<patches, last_checked_field, legacy_metadata,
                        target_schema, past_analysis>>]_vars

\* A second field was analysed successfully while patches of the first were
\* already collected.
C27_Witness ==
    /\ command.node = "analysis" /\ command.goto = "implement"
    /\ patches # <<>>
    /\ analysis_result # None
    /\ Len(analysis_result.recommended_mappings) > 0
    /\ analysis_result.legacy_field = last_checked_field
    /\ Last(messages).content.text = "Analysis completed for"

\* C28: analysis_call entered with no messages, or with no field to analyse,
\* goes to END with an empty update and does not ask the analyst; the state
\* is left as it was.
C28_AnalysisNothingToDo ==
    [][(Running("analysis") /\ (messages = <<>> \/ last_checked_field = "")) =>
         /\ command' = [node |-> "analysis", goto |-> END,
                        update |-> EmptyUpdate]
         /\ pc' = END
         /\ UNCHANGED <<oracle_calls, messages, analysis_result, patches,
                        last_checked_field>>]_vars

\* analysis_call was entered without messages although a field and a schema
\* were there, and ended the run silently.
C28_Witness ==
    /\ command.node = "analysis" /\ pc = END
    /\ messages = <<>>
    /\ last_checked_field # "" /\ target_schema # None
    /\ oracle_calls = <<>>

\* C29: implement_call entered with no messages goes to END with an empty
\* update; entered with messages but a missing or empty analysis result it
\* goes to END with the one message "Implementation failed: No analysis result
\* available". Either way the synthesizer is not asked and patches stay.
C29_ImplementNothingToDo ==
    [][(Running("implement") /\ (messages = <<>> \/ Falsy(analysis_result))) =>
         /\ command'.node = "implement" /\ command'.goto = END /\ pc' = END
         /\ command'.update =
                IF messages = <<>> THEN EmptyUpdate
                ELSE [messages |-> <<ImplementationNoResultMessage>>]
         /\ messages' =
                IF messages = <<>> THEN messages
                ELSE Append(messages, ImplementationNoResultMessage)
         /\ UNCHANGED <<oracle_calls, patches, analysis_result>>]_vars

\* implement_call was entered with messages, an empty analysis result and an
\* earlier patch, and reported the missing result.
C29_Witness ==
    /\ command.node = "implement" /\ pc = END
    /\ analysis_result = EmptyDict
    /\ messages # <<>>
    /\ Last(messages) = ImplementationNoResultMessage
    /\ patches = EarlierPatches
    /\ oracle_calls = <<>>

\* C30: an analysis result that is not empty but has neither legacy_field nor
\* recommended_mappings is not treated as a failure: implement_call asks the
\* synthesizer with an empty legacy and an empty target, and when the
\* synthesizer answers, its operations are appended to the patches and the
\* node goes back to plan.
Malformed(analysis) ==
    /\ ~Falsy(analysis)
    /\ "legacy_field" \notin DOMAIN analysis
    /\ "recommended_mappings" \notin DOMAIN analysis

C30_MalformedResultProceeds ==
    [][(Running("implement") /\ messages # <<>> /\ Malformed(analysis_result)) =>
         /\ Invoked
         /\ Last(oracle_calls').oracle = "implement"
         /\ Last(oracle_calls').request.legacy = EmptyDict
         /\ Last(oracle_calls').request.target = <<>>
         /\ ~Last(oracle_calls').raises =>
               /\ command'.goto = "plan" /\ pc' = "plan"
               /\ command'.update.patches =
                      patches \o Last(oracle_calls').patches
               /\ Kept("patches") =>
                      patches' = patches \o Last(oracle_calls').patches]_vars

\* The synthesizer answered a request with empty legacy and empty target, and
\* its operations were appended after the earlier patch.
C30_Witness ==
    /\ command.node = "implement" /\ command.goto = "plan"
    /\ analysis_result = PartialResult
    /\ Last(oracle_calls).request.legacy = EmptyDict
    /\ Last(oracle_calls).request.target = <<>>
    /\ Last(oracle_calls).patches # <<>>
    /\ patches = EarlierPatches \o Last(oracle_calls).patches

\* C31 as claimed: whenever analysis_call is about to run after plan selected
\* a field, the state holds that field as last_checked_field and plan's
\* request for it as the last message.
Selected == Last(oracle_calls).answer

C31_Claim ==
    (Running("analysis") /\ command.node = "plan") =>
        /\ last_checked_field = Selected.legacy_field
        /\ Last(messages) = PlanMessage(Selected.legacy_field,
                                        Selected.legacy_value)

\* C32: whenever implement_call is about to run, the analysis result in the
\* state is the one the analysis step just before it stored, which is the
\* analyst's answer of this cycle, not a result of an earlier field.
C32_ResultOfThisCycle ==
    Running("implement") =>
        /\ command.node = "analysis"
        /\ analysis_result = Get(command.update, "analysis_result", None)
        /\ Last(oracle_calls).oracle = "analysis"
        /\ analysis_result = Last(oracle_calls).answer

\* implement_call is about to run for a second field, an earlier cycle having
\* left the result of another field behind.
C32_Witness ==
    /\ Running("implement")
    /\ \E i \in 1..(Len(oracle_calls) - 1) :
          /\ oracle_calls[i].oracle = "analysis" /\ ~oracle_calls[i].raises
          /\ oracle_calls[i].answer.legacy_field # analysis_result.legacy_field

\* C33: a step of a node asks its oracle at most once, and once an oracle has
\* failed no oracle is asked again in the run.
SomeOracleFailed == \E i \in 1..Len(oracle_calls) : oracle_calls[i].raises

C33_NoRetry ==
    [][/\ IsPrefix(oracle_calls, oracle_calls')
       /\ Len(oracle_calls') <= Len(oracle_calls) + 1
       /\ SomeOracleFailed => oracle_calls' = oracle_calls]_vars

\* The analyst failed on a later field, after a first field had gone through
\* its whole cycle, and the run is over.
C33_Witness ==
    /\ Len(oracle_calls) > 3
    /\ Last(oracle_calls).oracle = "analysis"
    /\ Last(oracle_calls).raises
    /\ patches # <<>>
    /\ pc = END

\* C34: the request implement_call sends depends on the analysis result
\* alone. Any two implement steps of a run that read equal analysis results
\* (the answers of the analysis steps just before them) sent equal requests,
\* although the messages and the patches collected so far differed; and a
\* synthesizer that answers by its request returned equal operations.
ImplementSteps ==
    {i \in 2..Len(oracle_calls) :
        /\ oracle_calls[i].oracle = "implement"
        /\ oracle_calls[i - 1].oracle = "analysis"}

C34_RequestFromResultAlone ==
    \A i, j \in ImplementSteps :
       oracle_calls[i - 1].answer = oracle_calls[j - 1].answer =>
          /\ oracle_calls[i].request = oracle_calls[j].request
          /\ (~oracle_calls[i].raises /\ ~oracle_calls[j].raises) =>
                oracle_calls[i].patches = oracle_calls[j].patches

\* One analysis result was implemented twice in a run, the second time with
\* the operations of the first already in the patch list.
C34_Witness ==
    \E i, j \in ImplementSteps :
       /\ i < j
       /\ oracle_calls[i - 1].answer = oracle_calls[j - 1].answer
       /\ ~oracle_calls[i].raises /\ ~oracle_calls[j].raises
       /\ oracle_calls[i].patches # <<>>
       /\ Len(patches) >= 2 * Len(oracle_calls[i].patches)

\* C35 as claimed: whenever implement_call is about to run, the legacy field
\* of the analysis result is the field the planner selected for this cycle
\* and is last_checked_field.
PlannedField ==
    LET plans == {i \in 1..Len(oracle_calls) :
                     oracle_calls[i].oracle = "plan" /\ ~oracle_calls[i].raises}
        latest == CHOOSE i \in plans : \A j \in plans : j <= i
    IN oracle_calls[latest].answer.legacy_field

C35_Claim ==
    Running("implement") =>
        /\ analysis_result.legacy_field = PlannedField
        /\ analysis_result.legacy_field = last_checked_field

\* C36 as claimed: whatever the planner answers, a run completes at most as
\* many cycles as the document has fields, and the fields that entered
\* analysis are the document's fields in order, each the next unprocessed
\* one.
C36_Claim ==
    /\ Len(SelectSeq(oracle_calls, IsSynthesized)) <= Len(legacy_metadata)
    /\ IsPrefix(EnteredFields(messages), KeySeq(legacy_metadata))

\* C37: in a run started at plan, analysis_call and implement_call are never
\* entered with an empty message list, and implement_call is never entered
\* with a missing or empty analysis result; so implement_call never returns
\* by its missing-messages or its missing-result exit.
C37_GuardsNeverFire ==
    /\ (Running("analysis") \/ Running("implement")) => messages # <<>>
    /\ Running("implement") => ~Falsy(analysis_result)
    /\ command.node = "implement" =>
          /\ command.update # EmptyUpdate
          /\ command.update.messages # <<ImplementationNoResultMessage>>

\* Both nodes were entered a second time in one run: implement_call is about
\* to run with the result of the second analysis and the first field's
\* patches in place.
C37_Witness ==
    /\ Running("implement")
    /\ patches # <<>>
    /\ Cycles(messages) = 2
    /\ ~Falsy(analysis_result)

====
